---- MODULE Spec2Model ----
(***************************************************************************)
(* Model of @macroforge/shared: the external manifest cache                *)
(* (external-manifest.ts) and the config locator/loader (config.ts).       *)
(*                                                                         *)
(* JavaScript values are records tagged with their type; identifiers that  *)
(* are compared letter by letter are sequences of one-character strings.   *)
(***************************************************************************)
EXTENDS Integers, Sequences, FiniteSets, TLC

VARIABLES
    externalManifestCache,  \* Map<string, MacroManifest | null>
    globalRequire,          \* globalThis.require (Absent when not a property)
    callCount,              \* per path: loader uses since the last clear
    cleared,                \* a clearExternalManifestCache call has happened
    requested,              \* paths passed to getExternalManifest since the last clear
    lastCall,               \* what the last manifest operation did and returned
    files,                  \* the filesystem: set of <<directory, file name>>
    dirs,                   \* the directories that exist
    startDir,               \* the directory the build tool searches from
    lastConfig,             \* what the last config operation did and returned
    code,                   \* the source text handed to the comment parser
    lastParse,              \* what the last parseMacroImportComments call returned
    lastCollect             \* what the last collectExternalDecoratorModules call did

cacheVars == <<externalManifestCache, globalRequire, callCount, cleared, requested, lastCall>>
configVars == <<files, dirs, startDir, lastConfig>>
parseVars == <<code, lastParse, lastCollect>>
vars == <<externalManifestCache, globalRequire, callCount, cleared, requested, lastCall,
          files, dirs, startDir, lastConfig, code, lastParse, lastCollect>>

----------------------------------------------------------------------------
(* JavaScript helpers *)

\* Every JavaScript value is a record tagged with its type in field t.
Undefined == [t |-> "undefined"]
Null == [t |-> "null"]
\* A property that does not exist
Absent == [t |-> "absent"]
\* A function value, named by what created it
Fn(id) == [t |-> "function", id |-> id]
\* Marks that nothing was observed
None == [t |-> "none"]
\* The completion value of a call that threw
Exception == [t |-> "exception"]

\* a ?? b
NullishCoalesce(a, b) == IF a \in {Undefined, Null} THEN b ELSE a

\* !v for the values a manifest variable can hold (objects are truthy)
Falsy(v) == v \in {Undefined, Null}

LowerChar(c) ==
    CASE c = "A" -> "a"
      [] c = "B" -> "b"
      [] OTHER -> c

\* Mutant: the comparison is case-sensitive
toLowerCase_exact(s) == s

\* String.prototype.toLowerCase on a sequence of characters
toLowerCase(s) == [i \in DOMAIN s |-> LowerChar(s[i])]

\* Array.prototype.find: the first element whose test is true, else
\* undefined; test[i] is the callback's value on arr[i]
ArrayFind(arr, test) ==
    IF \E i \in DOMAIN arr : test[i]
    THEN arr[CHOOSE i \in DOMAIN arr : test[i] /\ \A j \in 1..(i - 1) : ~test[j]]
    ELSE Undefined

\* Map.prototype.has / get / set
MapHas(m, k) == k \in DOMAIN m
MapGet(m, k) == IF k \in DOMAIN m THEN m[k] ELSE Undefined
MapPut(m, k, v) == [x \in DOMAIN m \cup {k} |-> IF x = k THEN v ELSE m[x]]
EmptyMap == [x \in {} |-> Null]

\* Mutant: a failed load is not remembered
MapSet_skipNull(m, k, v) == IF v = Null THEN m ELSE MapPut(m, k, v)

\* Mutant: the key is normalised to lower case before it is stored
MapSet_lower(m, k, v) == MapPut(m, IF k = "@PKG/macro" THEN "@pkg/macro" ELSE k, v)

\* externalManifestCache.set(modulePath, ...)
MapSet(m, k, v) == MapPut(m, k, v)

----------------------------------------------------------------------------
(* The world the manifest cache runs in *)

\* Module path strings: they differ only in letter case and name the same
\* package on a case-insensitive resolver.
ModulePaths == {"@pkg/macro", "@PKG/macro"}

\* Manifests exported by external packages (names are character sequences).
ManifestA ==
    [t |-> "object",
     macros |-> << [name |-> <<"A", "b">>, description |-> "first"],
                   [name |-> <<"a", "B">>, description |-> "second"],
                   [name |-> <<"b", "_">>, description |-> "third"] >>,
     decorators |-> << [export |-> <<"b", "A">>, module |-> "ctrl", description |-> "d1"],
                       [export |-> <<"B", "a">>, module |-> "field", description |-> "d2"] >>]

ManifestB ==
    [t |-> "object", macros |-> << >>,
     decorators |-> << [export |-> <<"a">>, module |-> "ctrl", description |-> "d3"] >>]

\* What __macroforgeGetManifest() may return: a manifest, or a nullish value.
ManifestValues == {ManifestA, ManifestB, Undefined, Null}

\* The exported surface of a loaded module.
\*   isObject: FALSE when the loader returned null/undefined
\*   accessor: "missing" (no __macroforgeGetManifest function), "throws", "returns"
Pkg(isObject, accessor, manifest) ==
    [isObject |-> isObject, accessor |-> accessor, manifest |-> manifest]

Pkgs ==
    {Pkg(FALSE, "missing", Undefined), Pkg(TRUE, "missing", Undefined),
     Pkg(TRUE, "throws", Undefined)}
    \cup {Pkg(TRUE, "returns", m) : m \in ManifestValues}

\* A module-loading function as seen by one call:
\*   resolve: "none" (no .resolve), "throws", "invalid" (returns a path that
\*            createRequire rejects), "ok"
\*   load: "throws" or "returns" (then pkg is the module)
RequireFn(resolve, load, pkg) ==
    [t |-> "function", resolve |-> resolve, load |-> load, pkg |-> pkg]

RequireFunctions ==
    {RequireFn(r, "throws", Pkg(FALSE, "missing", Undefined)) :
        r \in {"throws", "invalid", "none", "ok"}}
    \cup {RequireFn(r, "returns", p) : r \in {"none", "ok"}, p \in Pkgs}

\* createRequire(import.meta.url): a Node require, which has .resolve
DefaultRequires == {r \in RequireFunctions : r.resolve # "none"}

\* Values globalThis.require can hold when a call starts.
GlobalValues == {Absent, Undefined, Fn("hostRequire")}

\* (globalThis as Record<string, unknown>).require
ReadGlobal(g) == IF g = Absent THEN Undefined ELSE g

----------------------------------------------------------------------------
(* external-manifest.ts *)

\* Lines 78-83: the finally block
RestoreRequire(prevRequire) ==
    IF prevRequire = Undefined THEN Absent ELSE prevRequire

\* Mutant: the restore is skipped when the nested load throws (no finally)
ScopedLoad_noFinally(global, req) ==
    IF req.resolve = "throws" \/ req.resolve = "invalid"
    THEN [threw |-> TRUE, pkg |-> req.pkg, global |-> global, during |-> None]
    ELSE [threw |-> req.load = "throws", pkg |-> req.pkg,
          global |-> IF req.load = "throws" THEN Fn("scopedReq")
                     ELSE RestoreRequire(ReadGlobal(global)),
          during |-> Fn("scopedReq")]

\* Lines 71-84: the resolution branch. Returns whether it threw, the loaded
\* module, globalThis.require afterwards and what it was during the nested
\* load (None when the nested load was never started).
ScopedLoad(global, req) ==
    IF req.resolve = "throws" \/ req.resolve = "invalid"
    THEN [threw |-> TRUE, pkg |-> req.pkg, global |-> global, during |-> None]
    ELSE LET prevRequire == ReadGlobal(global)
             scopedReq == Fn("scopedReq")
         IN  [threw |-> req.load = "throws", pkg |-> req.pkg,
              global |-> RestoreRequire(prevRequire), during |-> scopedReq]

\* Line 86: the plain branch
PlainLoad(global, req) ==
    [threw |-> req.load = "throws", pkg |-> req.pkg,
     global |-> global,
     during |-> ReadGlobal(global)]

\* Lines 69-87
LoadPackage(global, req) ==
    IF req.resolve # "none" THEN ScopedLoad(global, req) ELSE PlainLoad(global, req)

\* Lines 88-92: the accessor test and call
ReadManifest(pkg) ==
    IF ~pkg.isObject THEN [threw |-> TRUE, found |-> FALSE, manifest |-> Undefined]
    ELSE IF pkg.accessor = "missing" THEN [threw |-> FALSE, found |-> FALSE, manifest |-> Undefined]
    ELSE IF pkg.accessor = "throws" THEN [threw |-> TRUE, found |-> FALSE, manifest |-> Undefined]
    ELSE [threw |-> FALSE, found |-> TRUE, manifest |-> pkg.manifest]

\* Lines 60-92: the body of the try block
TryBody(global, req) ==
    LET ld == LoadPackage(global, req)
        rd == ReadManifest(ld.pkg)
    IN  IF ld.threw
        THEN [threw |-> TRUE, found |-> FALSE, manifest |-> Undefined,
              global |-> ld.global, during |-> ld.during]
        ELSE [threw |-> rd.threw, found |-> rd.found, manifest |-> rd.manifest,
              global |-> ld.global, during |-> ld.during]

\* Mutant: no catch, the exception leaves the function
Catch_rethrow(outcome) == outcome

\* Lines 93-95: catch { } swallows whatever the try block threw
Catch(outcome) == [outcome EXCEPT !.threw = FALSE]

\* Mutant: only manifests are discarded, absent-markers survive
ClearMap_keepAbsent(m) == [k \in {x \in DOMAIN m : m[x] = Null} |-> m[k]]

\* Line 27
ClearMap(m) == EmptyMap

\* Lines 52-99. requireFn is a RequireFunction or Undefined; defaultReq is
\* what createRequire(import.meta.url) yields in this process. An exception
\* that leaves the function is reported as threw, with nothing cached.
getExternalManifest(cache, global, modulePath, requireFn, defaultReq) ==
    IF MapHas(cache, modulePath)
    THEN [cache |-> cache, global |-> global,
          result |-> NullishCoalesce(MapGet(cache, modulePath), Null),
          threw |-> FALSE, invoked |-> FALSE, during |-> None]
    ELSE LET req == NullishCoalesce(requireFn, defaultReq)
             body == Catch(TryBody(global, req))
         IN  IF body.threw
             THEN [cache |-> cache, global |-> body.global, result |-> Exception,
                   threw |-> TRUE, invoked |-> TRUE, during |-> body.during]
             ELSE IF body.found
             THEN [cache |-> MapSet(cache, modulePath, body.manifest),
                   global |-> body.global, result |-> body.manifest,
                   threw |-> FALSE, invoked |-> TRUE, during |-> body.during]
             ELSE [cache |-> MapSet(cache, modulePath, Null),
                   global |-> body.global, result |-> Null,
                   threw |-> FALSE, invoked |-> TRUE, during |-> body.during]

\* Lines 117-130
getExternalMacroInfo(cache, global, macroName, modulePath, requireFn, defaultReq) ==
    LET got == getExternalManifest(cache, global, modulePath, requireFn, defaultReq)
        manifest == got.result
        Matches(m) == toLowerCase(m.name) = toLowerCase(macroName)
    IN  IF got.threw THEN got
        ELSE IF Falsy(manifest) THEN [got EXCEPT !.result = Null]
        ELSE [got EXCEPT !.result =
                NullishCoalesce(ArrayFind(manifest.macros,
                                          [i \in DOMAIN manifest.macros |->
                                              Matches(manifest.macros[i])]), Null)]

\* Lines 148-161
getExternalDecoratorInfo(cache, global, decoratorName, modulePath, requireFn, defaultReq) ==
    LET got == getExternalManifest(cache, global, modulePath, requireFn, defaultReq)
        manifest == got.result
        Matches(d) == toLowerCase(d.export) = toLowerCase(decoratorName)
    IN  IF got.threw THEN got
        ELSE IF Falsy(manifest) THEN [got EXCEPT !.result = Null]
        ELSE [got EXCEPT !.result =
                NullishCoalesce(ArrayFind(manifest.decorators,
                                          [i \in DOMAIN manifest.decorators |->
                                              Matches(manifest.decorators[i])]), Null)]

----------------------------------------------------------------------------
(* The manifest cache as a state machine *)

\* Names looked up by the two info helpers
LookupNames == {<<"a", "b">>, <<"B", "A">>, <<"B", "_">>, <<"A">>, <<"b">>}

\* The loader arguments a caller can pass, with the process's default loader
\* (which matters only when none is passed).
LoaderArgs ==
    {<<r, CHOOSE d \in DefaultRequires : TRUE>> : r \in RequireFunctions}
    \cup {<<Undefined, d>> : d \in DefaultRequires}

\* The loaders the info helpers are exercised with: plain loaders returning
\* each accessor value, a loader that throws, and the default loader.
LookupLoaderArgs ==
    {a \in LoaderArgs :
        \/ a[1] # Undefined /\ a[1].resolve = "none"
                            /\ (a[1].load = "throws" \/ a[1].pkg.accessor = "returns")
        \/ a[1] = Undefined /\ a[2] = RequireFn("ok", "returns", Pkg(TRUE, "returns", ManifestA))}

NoCall ==
    [op |-> "none", modulePath |-> "", name |-> << >>, req |-> Undefined,
     result |-> Undefined, threw |-> FALSE, invoked |-> FALSE, hit |-> FALSE,
     before |-> Absent, during |-> None, repeat |-> FALSE, others |-> TRUE]

\* The bookkeeping every manifest operation shares: got is the record the
\* operation returned, p the path, a the loader arguments.
Record(op, p, name, a, got) ==
    /\ externalManifestCache' = got.cache
    /\ globalRequire' = got.global
    /\ callCount' = [callCount EXCEPT ![p] = @ + (IF got.invoked THEN 1 ELSE 0)]
    /\ requested' = requested \cup {p}
    /\ lastCall' = [op |-> op, modulePath |-> p, name |-> name,
                    req |-> IF got.invoked THEN NullishCoalesce(a[1], a[2]) ELSE Undefined,
                    result |-> got.result, threw |-> got.threw,
                    invoked |-> got.invoked,
                    hit |-> MapHas(externalManifestCache, p),
                    before |-> globalRequire, during |-> got.during,
                    repeat |-> p \in requested,
                    others |-> \A q \in ModulePaths \ {p} :
                                  /\ MapHas(got.cache, q) = MapHas(externalManifestCache, q)
                                  /\ MapGet(got.cache, q) = MapGet(externalManifestCache, q)
                                  /\ callCount'[q] = callCount[q]]
    /\ UNCHANGED <<cleared, files, dirs, startDir, lastConfig, code, lastParse, lastCollect>>

GetExternalManifestCall ==
    \E p \in ModulePaths, a \in LoaderArgs :
        Record("getExternalManifest", p, << >>, a,
               getExternalManifest(externalManifestCache, globalRequire, p, a[1], a[2]))

GetExternalMacroInfoCall ==
    \E p \in ModulePaths, n \in LookupNames, a \in LookupLoaderArgs :
        Record("getExternalMacroInfo", p, n, a,
               getExternalMacroInfo(externalManifestCache, globalRequire, n, p, a[1], a[2]))

GetExternalDecoratorInfoCall ==
    \E p \in ModulePaths, n \in LookupNames, a \in LookupLoaderArgs :
        Record("getExternalDecoratorInfo", p, n, a,
               getExternalDecoratorInfo(externalManifestCache, globalRequire, n, p, a[1], a[2]))

\* Lines 26-28
clearExternalManifestCache ==
    /\ externalManifestCache' = ClearMap(externalManifestCache)
    /\ callCount' = [p \in ModulePaths |-> 0]
    /\ requested' = {}
    /\ cleared' = TRUE
    /\ lastCall' = [NoCall EXCEPT !.op = "clearExternalManifestCache"]
    /\ lastCollect' = Undefined
    /\ UNCHANGED <<globalRequire, files, dirs, startDir, lastConfig, code, lastParse>>

InitCache ==
    /\ externalManifestCache = EmptyMap
    /\ globalRequire \in GlobalValues
    /\ callCount = [p \in ModulePaths |-> 0]
    /\ cleared = FALSE
    /\ requested = {}
    /\ lastCall = NoCall
    /\ files = {}
    /\ dirs = {}
    /\ startDir = Undefined
    /\ lastConfig = Undefined
    /\ code = << >>
    /\ lastParse = Undefined
    /\ lastCollect = Undefined

NextCache ==
    \/ GetExternalManifestCall
    \/ GetExternalMacroInfoCall
    \/ GetExternalDecoratorInfoCall
    \/ clearExternalManifestCache

SpecCache == InitCache /\ [][NextCache]_vars

----------------------------------------------------------------------------
(* Properties of the manifest cache *)

ManifestOps == {"getExternalManifest", "getExternalMacroInfo", "getExternalDecoratorInfo"}

\* What the environment offers for a load: the accessor's return value when
\* resolution, loading and the accessor all succeed.
Offers(req) ==
    /\ req.resolve \in {"none", "ok"}
    /\ req.load = "returns"
    /\ req.pkg.isObject
    /\ req.pkg.accessor = "returns"

FreshResult(req) == IF Offers(req) THEN req.pkg.manifest ELSE Null

\* C1: between two clears the loader is used at most once per module path; a
\* repeated call for a path never uses the loader, whatever the first load gave.
C1_AtMostOneLoad ==
    /\ \A p \in ModulePaths : callCount[p] <= 1
    /\ (lastCall.op \in ManifestOps /\ lastCall.repeat) => ~lastCall.invoked

C1_Witness ==
    /\ lastCall.op = "getExternalManifest"
    /\ lastCall.repeat
    /\ callCount[lastCall.modulePath] = 1
    /\ MapGet(externalManifestCache, lastCall.modulePath) = Null

\* C2: getExternalManifest never throws; when the loader throws, resolution
\* throws, the accessor is missing or the accessor throws, it returns null and
\* the cache holds the absent-marker for that path.
C2_NeverThrows ==
    /\ ~lastCall.threw
    /\ (lastCall.op = "getExternalManifest" /\ lastCall.invoked /\ ~Offers(lastCall.req)) =>
          /\ lastCall.result = Null
          /\ MapHas(externalManifestCache, lastCall.modulePath)
          /\ MapGet(externalManifestCache, lastCall.modulePath) = Null

C2_Witness ==
    /\ lastCall.op = "getExternalManifest"
    /\ lastCall.invoked
    /\ lastCall.req.resolve = "none"
    /\ lastCall.req.load = "returns"
    /\ lastCall.req.pkg.accessor = "throws"
    /\ lastCall.result = Null

\* C3: a clear empties the cache, and the first call for a path after a clear
\* uses the loader again and returns what that load gives.
C3_ClearForcesReload ==
    /\ lastCall.op = "clearExternalManifestCache" => externalManifestCache = EmptyMap
    /\ (lastCall.op = "getExternalManifest" /\ cleared /\ ~lastCall.repeat) =>
          /\ lastCall.invoked
          /\ lastCall.result = FreshResult(lastCall.req)

C3_Witness ==
    /\ lastCall.op = "getExternalManifest"
    /\ cleared
    /\ ~lastCall.repeat
    /\ lastCall.invoked
    /\ lastCall.result = ManifestB

\* C4: a call that takes the resolution branch leaves globalThis.require with
\* the value it had at the start (absent stays absent), whether or not the
\* nested load threw; the scoped loader is the global only during that load.
C4_RequireRestored ==
    (lastCall.op = "getExternalManifest" /\ lastCall.invoked /\ lastCall.req.resolve # "none") =>
        /\ ReadGlobal(globalRequire) = ReadGlobal(lastCall.before)
        /\ lastCall.before = Absent => globalRequire = Absent
        /\ globalRequire # Fn("scopedReq")
        /\ lastCall.req.resolve = "ok" => lastCall.during = Fn("scopedReq")
        /\ lastCall.req.resolve # "ok" => lastCall.during = None

C4_Witness ==
    /\ lastCall.op = "getExternalManifest"
    /\ lastCall.invoked
    /\ lastCall.req.resolve = "ok"
    /\ lastCall.req.load = "throws"
    /\ lastCall.before = Fn("hostRequire")
    /\ lastCall.during = Fn("scopedReq")
    /\ globalRequire = Fn("hostRequire")

\* C5: the cache is keyed by the exact path string: a call for p touches only
\* p's entry, the keys are exactly the strings asked for, and each string gets
\* its own load attempt even when another spelling of it is cached.
C5_ExactKeys ==
    /\ DOMAIN externalManifestCache = requested
    /\ lastCall.op \in ManifestOps =>
          /\ lastCall.others
          /\ lastCall.invoked = ~lastCall.repeat
          /\ MapHas(externalManifestCache, lastCall.modulePath)

C5_Witness ==
    /\ lastCall.op = "getExternalManifest"
    /\ lastCall.modulePath = "@PKG/macro"
    /\ lastCall.invoked
    /\ DOMAIN externalManifestCache = {"@pkg/macro", "@PKG/macro"}
    /\ externalManifestCache["@pkg/macro"] = ManifestA
    /\ externalManifestCache["@PKG/macro"] = Null
    /\ callCount["@pkg/macro"] = 1 /\ callCount["@PKG/macro"] = 1

\* Equality of two names ignoring letter case, letter by letter
SameLetter(x, y) == x = y \/ {x, y} \in {{"a", "A"}, {"b", "B"}}
SameIgnoringCase(a, b) ==
    Len(a) = Len(b) /\ \A i \in 1..Len(a) : SameLetter(a[i], b[i])

\* r is the first entry of coll whose key equals name ignoring case, or null
\* when there is none
FirstMatchOrNull(coll, keys, name, r) ==
    IF \E i \in DOMAIN coll : SameIgnoringCase(keys[i], name)
    THEN \E i \in DOMAIN coll :
            /\ r = coll[i]
            /\ SameIgnoringCase(keys[i], name)
            /\ \A j \in 1..(i - 1) : ~SameIgnoringCase(keys[j], name)
    ELSE r = Null

\* C6: the info helpers return the first entry of macros (by name) or
\* decorators (by export) equal to the requested name ignoring case, and null
\* when none matches or the manifest is absent.
C6_FirstCaseInsensitiveMatch ==
    LET m == MapGet(externalManifestCache, lastCall.modulePath)
    IN  /\ lastCall.op = "getExternalMacroInfo" =>
              IF m \in {Undefined, Null} THEN lastCall.result = Null
              ELSE FirstMatchOrNull(m.macros, [i \in DOMAIN m.macros |-> m.macros[i].name],
                                    lastCall.name, lastCall.result)
        /\ lastCall.op = "getExternalDecoratorInfo" =>
              IF m \in {Undefined, Null} THEN lastCall.result = Null
              ELSE FirstMatchOrNull(m.decorators,
                                    [i \in DOMAIN m.decorators |-> m.decorators[i].export],
                                    lastCall.name, lastCall.result)

C6_Witness ==
    /\ lastCall.op = "getExternalMacroInfo"
    /\ lastCall.name = <<"a", "b">>
    /\ externalManifestCache[lastCall.modulePath] = ManifestA
    /\ lastCall.result = ManifestA.macros[1]

----------------------------------------------------------------------------
(* The filesystem the config locator runs on *)

\* Depth of the modelled directory tree; a start path has up to one segment more
MaxDepth == 1
\* Number of files on the filesystem
MaxFiles == 2

\* Directories are absolute: sequences of names below the root << >>.
DirName == "a"
RECURSIVE Chain(_)
Chain(n) == IF n = 0 THEN << >> ELSE Append(Chain(n - 1), DirName)
AllDirs == {Chain(n) : n \in 0..MaxDepth}

\* process.cwd()
Cwd == <<DirName>>

\* Lines 13-19
CONFIG_FILES ==
    << "macroforge.config.ts", "macroforge.config.mts", "macroforge.config.js",
       "macroforge.config.mjs", "macroforge.config.cjs" >>

\* Line 138
PACKAGE_JSON == "package.json"

FileNames == {CONFIG_FILES[i] : i \in DOMAIN CONFIG_FILES} \cup {PACKAGE_JSON}

\* A path string: absolute or relative, and its segments ("a" or "..");
\* the relative path without segments is ".".
Path(abs, segs) == [t |-> "string", abs |-> abs, segs |-> segs]

RECURSIVE SeqsUpTo(_, _)
SeqsUpTo(S, n) ==
    IF n = 0 THEN {<< >>}
    ELSE SeqsUpTo(S, n - 1) \cup {Append(q, x) : q \in SeqsUpTo(S, n - 1), x \in S}

StartDirs == {Path(abs, q) : abs \in BOOLEAN, q \in SeqsUpTo({DirName, ".."}, MaxDepth + 1)}

RECURSIVE SubsetsUpTo(_, _)
SubsetsUpTo(S, n) ==
    IF n = 0 THEN {{}}
    ELSE SubsetsUpTo(S, n - 1) \cup {T \cup {x} : T \in SubsetsUpTo(S, n - 1), x \in S}

Front(q) == SubSeq(q, 1, Len(q) - 1)
Last(q) == q[Len(q)]

IsPrefixClosed(D) == \A d \in D : d = << >> \/ Front(d) \in D

----------------------------------------------------------------------------
(* node:path and node:fs *)

\* Normalisation of segments as path.join does it: ".." removes the segment
\* before it; at the root it is dropped, at the start of a relative path kept.
RECURSIVE NormalizeSegs(_, _, _)
NormalizeSegs(abs, segs, acc) ==
    IF segs = << >> THEN acc
    ELSE LET x == Head(segs)
             next == IF x # ".." THEN Append(acc, x)
                     ELSE IF acc # << >> /\ Last(acc) # ".." THEN Front(acc)
                     ELSE IF abs THEN acc
                     ELSE Append(acc, x)
         IN  NormalizeSegs(abs, Tail(segs), next)

\* path.join(current, filename)
pathJoin(current, filename) ==
    Path(current.abs, NormalizeSegs(current.abs, Append(current.segs, filename), << >>))

\* path.dirname(current): lexical, the last segment is removed; "/" and "."
\* are their own dirname
pathDirname(current) ==
    IF current.segs = << >> THEN current
    ELSE Path(current.abs, Front(current.segs))

\* The directory the operating system reaches by following segs from base
RECURSIVE Follow(_, _)
Follow(base, segs) ==
    IF segs = << >> THEN base
    ELSE LET x == Head(segs)
         IN  Follow(IF x # ".." THEN Append(base, x)
                    ELSE IF base = << >> THEN base ELSE Front(base),
                    Tail(segs))

\* The directory a path names
ResolveDir(p) == Follow(IF p.abs THEN << >> ELSE Cwd, p.segs)

\* Mutant: the probe behaves like fs.statSync and throws when the directory
\* of p does not exist
existsSync_stat(fs, p) ==
    [threw |-> p.segs = << >> \/ ResolveDir(Path(p.abs, Front(p.segs))) \notin fs.dirs,
     value |-> p.segs # << >> /\
               <<ResolveDir(Path(p.abs, Front(p.segs))), Last(p.segs)>> \in fs.files]

\* fs.existsSync(p): true when the file exists, false otherwise; never throws
existsSync(fs, p) ==
    [threw |-> FALSE,
     value |-> p.segs # << >> /\
               <<ResolveDir(Path(p.abs, Front(p.segs))), Last(p.segs)>> \in fs.files]

\* fs.readFileSync(p, "utf8"): the read either throws or gives the content
readFileSync(read) ==
    IF read = "throws" THEN [threw |-> TRUE, content |-> ""]
    ELSE [threw |-> FALSE, content |-> read]

----------------------------------------------------------------------------
(* config.ts *)

\* Mutant: the candidates are tried in the reverse order
RECURSIVE FirstCandidate_reversed(_, _, _)
FirstCandidate_reversed(fs, current, i) ==
    IF i > Len(CONFIG_FILES) THEN [threw |-> FALSE, index |-> 0]
    ELSE LET k == Len(CONFIG_FILES) + 1 - i
             r == existsSync(fs, pathJoin(current, CONFIG_FILES[k]))
         IN  IF r.threw THEN [threw |-> TRUE, index |-> 0]
             ELSE IF r.value THEN [threw |-> FALSE, index |-> k]
             ELSE FirstCandidate_reversed(fs, current, i + 1)

\* Lines 130-135: the for loop from candidate i on. index is the position in
\* CONFIG_FILES of the first candidate that exists in current, 0 when none does.
RECURSIVE FirstCandidate(_, _, _)
FirstCandidate(fs, current, i) ==
    IF i > Len(CONFIG_FILES) THEN [threw |-> FALSE, index |-> 0]
    ELSE LET r == existsSync(fs, pathJoin(current, CONFIG_FILES[i]))
         IN  IF r.threw THEN [threw |-> TRUE, index |-> 0]
             ELSE IF r.value THEN [threw |-> FALSE, index |-> i]
             ELSE FirstCandidate(fs, current, i + 1)

\* Mutant: the walk never stops at package.json
Boundary_never(fs, current) == FALSE

\* Lines 137-140: the project boundary test
Boundary(fs, current) == existsSync(fs, pathJoin(current, PACKAGE_JSON)).value

\* Lines 129-145: the loop. visited lists the values current has taken.
RECURSIVE Walk(_, _, _)

\* Lines 130-145: one pass of the loop, c being what the for loop found
LoopBody(fs, current, seen, c, parent) ==
    IF c.threw
    THEN [threw |-> TRUE, result |-> Exception, visited |-> seen, stop |-> "throw"]
    ELSE IF c.index # 0
    THEN [threw |-> FALSE, result |-> pathJoin(current, CONFIG_FILES[c.index]),
          visited |-> seen, stop |-> "found"]
    ELSE IF Boundary(fs, current)
    THEN [threw |-> FALSE, result |-> Null, visited |-> seen, stop |-> "boundary"]
    ELSE IF parent = current
    THEN [threw |-> FALSE, result |-> Null, visited |-> seen, stop |-> "root"]
    ELSE Walk(fs, parent, seen)

Walk(fs, current, visited) ==
    LoopBody(fs, current, Append(visited, current), FirstCandidate(fs, current, 1),
             pathDirname(current))

\* Lines 126-148
findConfigFile(fs, start) == Walk(fs, start, << >>)

\* What a ConfigLoader returns (lines 41-47)
ConfigLoadResult(keep, convenience, foreign, count, returnTypes) ==
    [t |-> "object", keepDecorators |-> keep, generateConvenienceConst |-> convenience,
     hasForeignTypes |-> foreign, foreignTypeCount |-> count, returnTypes |-> returnTypes]

LoadResults ==
    {ConfigLoadResult(TRUE, TRUE, FALSE, 0, "vanilla"),
     ConfigLoadResult(FALSE, FALSE, TRUE, 1, "effect")}

\* A ConfigLoader (lines 103-106) as seen by one call: it throws, or it
\* returns a result; a returned undefined makes the field reads throw.
ConfigLoader(behaviour, result) == [t |-> "function", behaviour |-> behaviour, result |-> result]

ConfigLoaders ==
    {ConfigLoader("throws", Undefined), ConfigLoader("returns", Undefined)}
    \cup {ConfigLoader("returns", r) : r \in LoadResults}

\* Mutant: keepDecorators is taken from the fallback, not from the result
TryLoad_keepDefault(configPath, loadConfigFn, read) ==
    LET file == readFileSync(read)
        result == loadConfigFn.result
    IN  IF file.threw
        THEN [threw |-> TRUE, config |-> Undefined, loaderArgs |-> << >>]
        ELSE IF loadConfigFn.behaviour = "throws" \/ result = Undefined
        THEN [threw |-> TRUE, config |-> Undefined,
              loaderArgs |-> << <<file.content, configPath>> >>]
        ELSE [threw |-> FALSE,
              config |-> [keepDecorators |-> FALSE,
                          generateConvenienceConst |-> result.generateConvenienceConst,
                          configPath |-> configPath,
                          hasForeignTypes |-> result.hasForeignTypes,
                          returnTypes |-> result.returnTypes],
              loaderArgs |-> << <<file.content, configPath>> >>]

\* Lines 190-200: the body of the try block
TryLoad(configPath, loadConfigFn, read) ==
    LET file == readFileSync(read)
        result == loadConfigFn.result
    IN  IF file.threw
        THEN [threw |-> TRUE, config |-> Undefined, loaderArgs |-> << >>]
        ELSE IF loadConfigFn.behaviour = "throws" \/ result = Undefined
        THEN [threw |-> TRUE, config |-> Undefined,
              loaderArgs |-> << <<file.content, configPath>> >>]
        ELSE [threw |-> FALSE,
              config |-> [keepDecorators |-> result.keepDecorators,
                          generateConvenienceConst |-> result.generateConvenienceConst,
                          configPath |-> configPath,
                          hasForeignTypes |-> result.hasForeignTypes,
                          returnTypes |-> result.returnTypes],
              loaderArgs |-> << <<file.content, configPath>> >>]

\* Mutant: no catch, the exception leaves loadMacroConfig
CatchLoad_rethrow(outcome) == outcome

\* Lines 201-203: catch { } falls through to the fallback
CatchLoad(outcome) == [outcome EXCEPT !.threw = FALSE]

\* Mutant: the located path is not added to the fallback
WithPath_noPath(fallback, configPath) == fallback

\* Lines 207-210: { ...fallback, configPath }
WithPath(fallback, configPath) ==
    [keepDecorators |-> fallback.keepDecorators, configPath |-> configPath]

\* Lines 181-210, found being what findConfigFile returned (line 183)
LoadFound(found, fallback, loadConfigFn, read) ==
    IF found.threw
    THEN [threw |-> TRUE, result |-> Exception, visited |-> found.visited,
          configPath |-> Null, loaderArgs |-> << >>, fileRead |-> FALSE]
    ELSE IF found.result = Null
    THEN [threw |-> FALSE, result |-> fallback, visited |-> found.visited,
          configPath |-> Null, loaderArgs |-> << >>, fileRead |-> FALSE]
    ELSE IF loadConfigFn = Undefined
    THEN [threw |-> FALSE, result |-> WithPath(fallback, found.result),
          visited |-> found.visited, configPath |-> found.result,
          loaderArgs |-> << >>, fileRead |-> FALSE]
    ELSE LET tried == CatchLoad(TryLoad(found.result, loadConfigFn, read))
         IN  [threw |-> tried.threw,
              result |-> IF tried.threw THEN Exception
                         ELSE IF tried.config # Undefined THEN tried.config
                         ELSE WithPath(fallback, found.result),
              visited |-> found.visited, configPath |-> found.result,
              loaderArgs |-> tried.loaderArgs, fileRead |-> TRUE]

\* Lines 177-211. loadConfigFn is a ConfigLoader or Undefined; read is what
\* reading the located file gives.
loadMacroConfig(fs, start, loadConfigFn, read) ==
    LoadFound(findConfigFile(fs, start), [keepDecorators |-> FALSE], loadConfigFn, read)

----------------------------------------------------------------------------
(* The config locator as a state machine: the build tool locates and loads  *)
(* its configuration once, from the start directory it was given.          *)

\* What reading the located file can give
Reads == {"throws", "export default {}", "keepDecorators: true"}

FS == [files |-> files, dirs |-> dirs]

\* What a config operation did and returned
FindRecord(got) ==
    [op |-> "findConfigFile", threw |-> got.threw, result |-> got.result,
     visited |-> got.visited, configPath |-> got.result, loader |-> Undefined,
     read |-> "", loaderArgs |-> << >>, fileRead |-> FALSE, stop |-> got.stop]

LoadRecord(got, loadConfigFn, read) ==
    [op |-> "loadMacroConfig", threw |-> got.threw, result |-> got.result,
     visited |-> got.visited, configPath |-> got.configPath, loader |-> loadConfigFn,
     read |-> read, loaderArgs |-> got.loaderArgs, fileRead |-> got.fileRead]

FindConfigFileCall ==
    /\ lastConfig = Undefined
    /\ lastConfig' = FindRecord(findConfigFile(FS, startDir))
    /\ UNCHANGED <<files, dirs, startDir>>
    /\ UNCHANGED cacheVars
    /\ UNCHANGED parseVars

LoadMacroConfigCall ==
    /\ lastConfig = Undefined
    /\ \E loadConfigFn \in ConfigLoaders \cup {Undefined}, read \in Reads :
        /\ loadConfigFn = Undefined => read = "throws"
        /\ lastConfig' = LoadRecord(loadMacroConfig(FS, startDir, loadConfigFn, read),
                                    loadConfigFn, read)
    /\ UNCHANGED <<files, dirs, startDir>>
    /\ UNCHANGED cacheVars
    /\ UNCHANGED parseVars

InitConfig ==
    /\ dirs \in {D \in SUBSET AllDirs : << >> \in D /\ Cwd \in D /\ IsPrefixClosed(D)}
    /\ files \in SubsetsUpTo(dirs \X FileNames, MaxFiles)
    /\ startDir \in StartDirs
    /\ lastConfig = Undefined
    /\ externalManifestCache = EmptyMap
    /\ globalRequire = Absent
    /\ callCount = [p \in ModulePaths |-> 0]
    /\ cleared = FALSE
    /\ requested = {}
    /\ lastCall = NoCall
    /\ code = << >>
    /\ lastParse = Undefined
    /\ lastCollect = Undefined

NextConfig ==
    \/ FindConfigFileCall
    \/ LoadMacroConfigCall

SpecConfig == InitConfig /\ [][NextConfig]_vars

----------------------------------------------------------------------------
(* Properties of the config locator *)

HasFile(d, name) == <<d, name>> \in files
HasCandidate(d) == \E i \in DOMAIN CONFIG_FILES : HasFile(d, CONFIG_FILES[i])

\* The candidate of directory d that comes first in the precedence order
BestCandidate(d) ==
    CONFIG_FILES[CHOOSE i \in DOMAIN CONFIG_FILES :
                    HasFile(d, CONFIG_FILES[i]) /\ \A j \in 1..(i - 1) : ~HasFile(d, CONFIG_FILES[j])]

\* The path r names file name of directory d
Names(r, d, name) ==
    /\ r # Null /\ r # Exception
    /\ r.segs # << >>
    /\ Last(r.segs) = name
    /\ ResolveDir(Path(r.abs, Front(r.segs))) = d

\* The path r names the best candidate of directory d
NamesBest(r, d) == HasCandidate(d) /\ Names(r, d, BestCandidate(d))

\* The directory startDir names, and its parents up to the root
StartDirectory == ResolveDir(startDir)
Ancestors == {SubSeq(StartDirectory, 1, n) : n \in 0..Len(StartDirectory)}

\* The directories the walk can examine: the one startDir names (k = 0), then
\* the one named by startDir with its last k segments removed.
Steps == 0..Len(startDir.segs)
StepDir(k) == ResolveDir(Path(startDir.abs, SubSeq(startDir.segs, 1, Len(startDir.segs) - k)))
StopsAt(k) == HasCandidate(StepDir(k)) \/ HasFile(StepDir(k), PACKAGE_JSON)
FirstStop == CHOOSE k \in Steps : StopsAt(k) /\ \A j \in 0..(k - 1) : ~StopsAt(j)

C8_StopsAtBoundary ==
    lastConfig # Undefined /\ lastConfig.op = "findConfigFile" =>
        \A k \in Steps :
            (HasFile(StepDir(k), PACKAGE_JSON) /\ \A j \in 0..(k - 1) : ~StopsAt(j)) =>
                /\ Len(lastConfig.visited) = k + 1
                /\ IF HasCandidate(StepDir(k))
                   THEN NamesBest(lastConfig.result, StepDir(k))
                   ELSE lastConfig.result = Null

C8_Witness ==
    /\ lastConfig # Undefined /\ lastConfig.op = "findConfigFile"
    /\ lastConfig.result = Null
    /\ startDir = Path(TRUE, <<"a">>)
    /\ HasFile(<<"a">>, PACKAGE_JSON)
    /\ HasCandidate(<< >>)
    /\ Len(lastConfig.visited) = 1

\* C9 as stated: a start directory that does not exist gives not-found, and
\* no exception, on every filesystem.
C9_MissingStartNotFound ==
    (lastConfig # Undefined /\ lastConfig.op = "findConfigFile" /\ StartDirectory \notin dirs) =>
        ~lastConfig.threw /\ lastConfig.result = Null

\* C9 amended: a start directory that does not exist never makes the call
\* throw; the result is not-found unless a directory examined further up the
\* walk exists and holds a candidate, and then it is a file of that directory.
C9_MissingStartNoThrow ==
    (lastConfig # Undefined /\ lastConfig.op = "findConfigFile" /\ StartDirectory \notin dirs) =>
        /\ ~lastConfig.threw
        /\ (\A k \in Steps : ~HasCandidate(StepDir(k))) => lastConfig.result = Null
        /\ lastConfig.result # Null =>
              \E k \in Steps \ {0} :
                  /\ StepDir(k) \in dirs
                  /\ NamesBest(lastConfig.result, StepDir(k))

C9_Witness ==
    /\ lastConfig # Undefined /\ lastConfig.op = "findConfigFile"
    /\ startDir = Path(TRUE, <<"a", "a">>)
    /\ <<"a", "a">> \notin dirs
    /\ lastConfig.result = Path(TRUE, <<"a", "macroforge.config.js">>)

\* C10: loadMacroConfig never throws; with a located file and a loader, a
\* failing read or a failing loader gives exactly the default record plus the
\* located path.
C10_LoadFailureFallsBack ==
    lastConfig # Undefined /\ lastConfig.op = "loadMacroConfig" =>
        /\ ~lastConfig.threw
        /\ (/\ lastConfig.configPath # Null
            /\ lastConfig.loader # Undefined
            /\ \/ lastConfig.read = "throws"
               \/ lastConfig.loader.behaviour = "throws"
               \/ lastConfig.loader.result = Undefined) =>
              /\ lastConfig.result = [keepDecorators |-> FALSE,
                                      configPath |-> lastConfig.configPath]
              /\ NamesBest(lastConfig.configPath, StepDir(FirstStop))

C10_Witness ==
    /\ lastConfig # Undefined /\ lastConfig.op = "loadMacroConfig"
    /\ lastConfig.loader # Undefined
    /\ lastConfig.loader.behaviour = "throws"
    /\ lastConfig.read # "throws"
    /\ lastConfig.configPath = Path(FALSE, <<"macroforge.config.mjs">>)
    /\ lastConfig.result = [keepDecorators |-> FALSE,
                            configPath |-> Path(FALSE, <<"macroforge.config.mjs">>)]

\* The walk ends at an examined directory that holds a candidate
WalkFinds == (\E k \in Steps : StopsAt(k)) /\ HasCandidate(StepDir(FirstStop))

\* C11: loadMacroConfig always returns a record. When the walk finds nothing
\* the record is {keepDecorators: false} without configPath; when a file is
\* found and no loader is passed it is {keepDecorators: false, configPath}
\* with no other field, and the file is not read.
C11_DefaultRecord ==
    lastConfig # Undefined /\ lastConfig.op = "loadMacroConfig" =>
        /\ ~lastConfig.threw
        /\ lastConfig.result \notin {Undefined, Null, Exception}
        /\ "keepDecorators" \in DOMAIN lastConfig.result
        /\ ~WalkFinds =>
              /\ lastConfig.result = [keepDecorators |-> FALSE]
              /\ "configPath" \notin DOMAIN lastConfig.result
              /\ ~lastConfig.fileRead
              /\ lastConfig.loaderArgs = << >>
        /\ (WalkFinds /\ lastConfig.loader = Undefined) =>
              /\ DOMAIN lastConfig.result = {"keepDecorators", "configPath"}
              /\ lastConfig.result.keepDecorators = FALSE
              /\ lastConfig.result.configPath = lastConfig.configPath
              /\ NamesBest(lastConfig.configPath, StepDir(FirstStop))
              /\ ~lastConfig.fileRead

C11_Witness ==
    /\ lastConfig # Undefined /\ lastConfig.op = "loadMacroConfig"
    /\ lastConfig.loader = Undefined
    /\ startDir = Path(TRUE, <<"a">>)
    /\ files = {<< << >>, "macroforge.config.js">>}
    /\ ~lastConfig.fileRead
    /\ lastConfig.result = [keepDecorators |-> FALSE,
                            configPath |-> Path(TRUE, <<"macroforge.config.js">>)]

\* C12: with a located file, a loader, a read that succeeds and a loader that
\* returns a result, the loader is called exactly once with (content, located
\* path), and the record carries the result's keepDecorators,
\* generateConvenienceConst, hasForeignTypes and returnTypes plus the located
\* path as configPath.
C12_LoaderResultMapped ==
    (/\ lastConfig # Undefined /\ lastConfig.op = "loadMacroConfig"
     /\ WalkFinds
     /\ lastConfig.loader # Undefined
     /\ lastConfig.read # "throws"
     /\ lastConfig.loader.behaviour = "returns"
     /\ lastConfig.loader.result # Undefined) =>
        /\ lastConfig.fileRead
        /\ lastConfig.loaderArgs = << <<lastConfig.read, lastConfig.configPath>> >>
        /\ NamesBest(lastConfig.configPath, StepDir(FirstStop))
        /\ lastConfig.result.keepDecorators = lastConfig.loader.result.keepDecorators
        /\ lastConfig.result.generateConvenienceConst =
              lastConfig.loader.result.generateConvenienceConst
        /\ lastConfig.result.hasForeignTypes = lastConfig.loader.result.hasForeignTypes
        /\ lastConfig.result.returnTypes = lastConfig.loader.result.returnTypes
        /\ lastConfig.result.configPath = lastConfig.configPath

C12_Witness ==
    /\ lastConfig # Undefined /\ lastConfig.op = "loadMacroConfig"
    /\ lastConfig.loader = ConfigLoader("returns", ConfigLoadResult(FALSE, FALSE, TRUE, 1, "effect"))
    /\ lastConfig.read = "keepDecorators: true"
    /\ lastConfig.loaderArgs =
          << <<"keepDecorators: true", Path(FALSE, <<"..", "macroforge.config.ts">>)>> >>
    /\ lastConfig.result.returnTypes = "effect"
    /\ lastConfig.result.hasForeignTypes
    /\ lastConfig.result.configPath = Path(FALSE, <<"..", "macroforge.config.ts">>)

----------------------------------------------------------------------------
(* Source text for the comment parser *)

\* Number of chunks a source text is put together from
MaxChunks == 2

\* A text is a sequence of tokens: a keyword, a punctuation mark, a
\* whitespace character, a name letter or a module path (the text between
\* the quotes), each standing for the characters it is written with.
Whitespace == {" "}
DoubleQuote == "dquote"
SingleQuote == "squote"
Quotes == {DoubleQuote, SingleQuote}

\* The flag i of the pattern: keywords are compared in lower case
IgnoreCase(tok) ==
    CASE tok = "IMPORT" -> "import"
      [] tok = "MACRO" -> "macro"
      [] tok = "FROM" -> "from"
      [] OTHER -> tok

\* A macro-import comment written with the given keyword spelling, the gap
\* between import and macro, the text between the braces and the quoted path
Comment(kw, gap, names, q1, path, q2) ==
    <<"/**", " ", kw>> \o gap \o <<"macro", " ", "{">> \o names
        \o <<"}", " ", "from", " ", q1>> \o path \o <<q2, ";", " ", "*/", " ">>

Chunks ==
    { Comment("import", <<" ">>, <<"A">>, DoubleQuote, <<"@pkg/macro">>, DoubleQuote),
      Comment("import", <<" ">>, <<"B">>, SingleQuote, <<"@pkg/macro">>, SingleQuote),
      Comment("import", <<" ", " ">>, <<" ", "A", ",", " ", "B", " ">>,
              SingleQuote, <<"@PKG/macro">>, SingleQuote),
      Comment("IMPORT", <<" ">>, <<"B", ",", ",", "A">>,
              DoubleQuote, <<"@PKG/macro">>, SingleQuote),
      Comment("import", <<" ">>, <<" ", ",", " ">>, DoubleQuote, <<"@pkg/macro">>, DoubleQuote),
      Comment("import", <<" ">>, <<"A", " ", "B">>, DoubleQuote, <<"@pkg/macro">>, DoubleQuote),
      Comment("import", << >>, <<"A">>, DoubleQuote, <<"@pkg/macro">>, DoubleQuote),
      Comment("import", <<" ">>, << >>, DoubleQuote, <<"@pkg/macro">>, DoubleQuote),
      Comment("import", <<" ">>, <<"A">>, DoubleQuote, << >>, DoubleQuote),
      <<"/**", "IMPORT", " ", "MACRO", "{", "B", "}", "FROM", SingleQuote, "@PKG/macro",
        SingleQuote>>,
      <<"/**", " ", "import", " ", "macro", " ", "{", "B", " ">>,
      <<"class", " ", "{", "}", " ">> }

RECURSIVE TextsUpTo(_)
TextsUpTo(n) ==
    IF n = 0 THEN {<< >>}
    ELSE TextsUpTo(n - 1) \cup {t \o c : t \in TextsUpTo(n - 1), c \in Chunks}

Texts == TextsUpTo(MaxChunks)

----------------------------------------------------------------------------
(* macro-imports.ts *)

\* \s* from position i: the position of the first token that is not whitespace
RECURSIVE SkipSpace(_, _)
SkipSpace(t, i) ==
    IF i <= Len(t) /\ t[i] \in Whitespace THEN SkipSpace(t, i + 1) ELSE i

\* [^...]* from position i: the position of the first token in stops
RECURSIVE SkipUntil(_, _, _)
SkipUntil(t, i, stops) ==
    IF i <= Len(t) /\ t[i] \notin stops THEN SkipUntil(t, i + 1, stops) ELSE i

\* A literal of the pattern at position i
Lit(t, i, tok) == i <= Len(t) /\ IgnoreCase(t[i]) = tok

NoMatch == [ok |-> FALSE, group1 |-> << >>, group2 |-> << >>, lastIndex |-> 1]

\* Lines 26-27: the pattern tried at position i,
\*   /\*\*  \s*  import  \s+  macro  \s*  \{ ([^}]+) \}  \s*  from  \s*
\*   ["'] ([^"']+) ["']
\* Every quantifier is followed by a literal outside its class, so the greedy
\* match is the only one.
MatchAt(t, i) ==
    LET a == SkipSpace(t, i + 1)
        b == SkipSpace(t, a + 1)
        c == SkipSpace(t, b + 1)
        d == SkipUntil(t, c + 1, {"}"})
        e == SkipSpace(t, d + 1)
        f == SkipSpace(t, e + 1)
        g == SkipUntil(t, f + 1, Quotes)
    IN  IF /\ Lit(t, i, "/**")
           /\ Lit(t, a, "import")
           /\ b > a + 1
           /\ Lit(t, b, "macro")
           /\ Lit(t, c, "{")
           /\ d > c + 1
           /\ Lit(t, d, "}")
           /\ Lit(t, e, "from")
           /\ f <= Len(t) /\ t[f] \in Quotes
           /\ g > f + 1
           /\ g <= Len(t) /\ t[g] \in Quotes
        THEN [ok |-> TRUE, group1 |-> SubSeq(t, c + 1, d - 1),
              group2 |-> SubSeq(t, f + 1, g - 1), lastIndex |-> g + 1]
        ELSE NoMatch

\* Line 30: pattern.exec(text) with the flag g: the leftmost match that
\* starts at lastIndex or later, null (not ok) when there is none
RECURSIVE RegExpExec(_, _)
RegExpExec(t, lastIndex) ==
    IF lastIndex > Len(t) THEN NoMatch
    ELSE IF MatchAt(t, lastIndex).ok THEN MatchAt(t, lastIndex)
    ELSE RegExpExec(t, lastIndex + 1)

\* Line 32: String.prototype.split(","); cur is the piece being read
RECURSIVE Split(_, _, _)
Split(s, cur, out) ==
    IF s = << >> THEN Append(out, cur)
    ELSE IF Head(s) = "," THEN Split(Tail(s), << >>, Append(out, cur))
    ELSE Split(Tail(s), Append(cur, Head(s)), out)

\* Line 33: String.prototype.trim
RECURSIVE Trim(_)
Trim(s) ==
    IF s = << >> THEN s
    ELSE IF Head(s) \in Whitespace THEN Trim(Tail(s))
    ELSE IF s[Len(s)] \in Whitespace THEN Trim(SubSeq(s, 1, Len(s) - 1))
    ELSE s

\* Line 34: filter(Boolean) keeps the strings that are not empty
FilterBoolean(list) == SelectSeq(list, LAMBDA n : n # << >>)

\* Lines 31-34
NamesOf(group1) ==
    LET pieces == Split(group1, << >>, << >>)
    IN  FilterBoolean([k \in DOMAIN pieces |-> Trim(pieces[k])])

\* A Map<string, string> in insertion order: a sequence of entries
HasKey(m, k) == \E x \in DOMAIN m : m[x].key = k
ValueOf(m, k) == m[CHOOSE x \in DOMAIN m : m[x].key = k].value
Keys(m) == {m[x].key : x \in DOMAIN m}

\* Mutant: a name that is already in the table keeps its first module path
ImportsSet_first(m, k, v) ==
    IF HasKey(m, k) THEN m ELSE Append(m, [key |-> k, value |-> v])

\* Line 37: imports.set(name, modulePath); a key that is set again keeps its
\* place and takes the new value
ImportsSet(m, k, v) ==
    IF HasKey(m, k)
    THEN [x \in DOMAIN m |-> IF m[x].key = k THEN [key |-> k, value |-> v] ELSE m[x]]
    ELSE Append(m, [key |-> k, value |-> v])

\* Lines 36-38: the for loop over names
RECURSIVE SetAll(_, _, _)
SetAll(imports, names, modulePath) ==
    IF names = << >> THEN imports
    ELSE SetAll(ImportsSet(imports, Head(names), modulePath), Tail(names), modulePath)

\* Lines 30-39: the while loop, match being what exec returned
RECURSIVE WhileMatch(_, _, _)
WhileMatch(t, match, imports) ==
    IF ~match.ok THEN imports
    ELSE WhileMatch(t, RegExpExec(t, match.lastIndex),
                    SetAll(imports, NamesOf(match.group1), match.group2))

\* Lines 24-41
parseMacroImportComments(text) == WhileMatch(text, RegExpExec(text, 1), << >>)

----------------------------------------------------------------------------
(* The comment parser as a state machine: one text, parsed once *)

ParseCall ==
    /\ lastParse = Undefined
    /\ lastParse' = [t |-> "result", threw |-> FALSE, imports |-> parseMacroImportComments(code)]
    /\ UNCHANGED <<code, lastCollect>>
    /\ UNCHANGED cacheVars
    /\ UNCHANGED configVars

InitParse ==
    /\ code \in Texts
    /\ lastParse = Undefined
    /\ lastCollect = Undefined
    /\ externalManifestCache = EmptyMap
    /\ globalRequire = Absent
    /\ callCount = [p \in ModulePaths |-> 0]
    /\ cleared = FALSE
    /\ requested = {}
    /\ lastCall = NoCall
    /\ files = {}
    /\ dirs = {}
    /\ startDir = Undefined
    /\ lastConfig = Undefined

NextParse == ParseCall

SpecParse == InitParse /\ [][NextParse]_vars

----------------------------------------------------------------------------
(* Properties of the comment parser *)

AllSpace(t, lo, hi) == \A k \in lo..hi : t[k] \in Whitespace

\* The tokens i..q2 of t are a macro-import comment: the opener at i, the
\* braces at ob and cb, the quotes at q1 and q2
IsComment(t, i, ob, cb, q1, q2) ==
    /\ t[i] = "/**"
    /\ \E im \in (i + 1)..(ob - 3) :
          /\ AllSpace(t, i + 1, im - 1)
          /\ t[im] \in {"import", "IMPORT"}
          /\ \E ma \in (im + 2)..(ob - 1) :
                /\ AllSpace(t, im + 1, ma - 1)
                /\ t[ma] \in {"macro", "MACRO"}
                /\ AllSpace(t, ma + 1, ob - 1)
    /\ t[ob] = "{" /\ t[cb] = "}"
    /\ cb > ob + 1
    /\ \A k \in (ob + 1)..(cb - 1) : t[k] # "}"
    /\ \E fr \in (cb + 1)..(q1 - 1) :
          /\ AllSpace(t, cb + 1, fr - 1)
          /\ t[fr] \in {"from", "FROM"}
          /\ AllSpace(t, fr + 1, q1 - 1)
    /\ t[q1] \in Quotes /\ t[q2] \in Quotes
    /\ q2 > q1 + 1
    /\ \A k \in (q1 + 1)..(q2 - 1) : t[k] \notin Quotes

\* The comments of t, each <<i, ob, cb, q1, q2>>
CommentsOf(t) ==
    {s \in {<<i, ob, cb, q1, q2>> : i \in {k \in DOMAIN t : t[k] = "/**"},
                                     ob \in {k \in DOMAIN t : t[k] = "{"},
                                     cb \in {k \in DOMAIN t : t[k] = "}"},
                                     q1 \in {k \in DOMAIN t : t[k] \in Quotes},
                                     q2 \in {k \in DOMAIN t : t[k] \in Quotes}} :
        s[1] < s[2] /\ s[2] < s[3] /\ s[3] < s[4] /\ s[4] < s[5]
        /\ IsComment(t, s[1], s[2], s[3], s[4], s[5])}

\* The matches of one scan of t from position from on: the leftmost comment,
\* then the matches of the text after its closing quote
RECURSIVE Matching(_, _)
Matching(all, from) ==
    IF ~\E s \in all : s[1] >= from THEN {}
    ELSE LET s == CHOOSE x \in all : x[1] >= from /\ \A y \in all : y[1] >= from => x[1] <= y[1]
         IN  {s} \cup Matching(all, s[5] + 1)

\* The names comment s lists: the stretches between two commas, or a comma
\* and a brace, without the whitespace around them, when anything is left
Listed(t, s) ==
    {SubSeq(t, a, b) : <<a, b>> \in
        {ab \in ((s[2] + 1)..(s[3] - 1)) \X ((s[2] + 1)..(s[3] - 1)) :
            /\ ab[1] <= ab[2]
            /\ t[ab[1]] \notin Whitespace /\ t[ab[2]] \notin Whitespace
            /\ \A k \in ab[1]..ab[2] : t[k] # ","
            /\ \E l \in s[2]..(ab[1] - 1) :
                  (l = s[2] \/ t[l] = ",") /\ AllSpace(t, l + 1, ab[1] - 1)
            /\ \E r \in (ab[2] + 1)..s[3] :
                  (r = s[3] \/ t[r] = ",") /\ AllSpace(t, ab[2] + 1, r - 1)}}

PathOf(t, s) == SubSeq(t, s[4] + 1, s[5] - 1)

\* The table maps each listed name to the path of the last match listing it
LastWins(t, imports, matches) ==
    /\ Keys(imports) = UNION {Listed(t, s) : s \in matches}
    /\ \A x \in DOMAIN imports : \A y \in DOMAIN imports :
          imports[x].key = imports[y].key => x = y
    /\ \A x \in DOMAIN imports :
          \E s \in matches :
              /\ imports[x].key \in Listed(t, s)
              /\ imports[x].value = PathOf(t, s)
              /\ \A r \in matches : imports[x].key \in Listed(t, r) => r[1] <= s[1]

\* C13: parseMacroImportComments never throws; its table has exactly the
\* trimmed, non-empty names listed in the matching comments, each mapped to
\* the module path of the last matching comment that lists it; a text without
\* a matching comment gives the empty table.
C13_LastWins ==
    lastParse # Undefined =>
        /\ ~lastParse.threw
        /\ LastWins(code, lastParse.imports, Matching(CommentsOf(code), 1))
        /\ CommentsOf(code) = {} => lastParse.imports = << >>

C13_Witness ==
    /\ lastParse # Undefined
    /\ code = Comment("import", <<" ", " ">>, <<" ", "A", ",", " ", "B", " ">>,
                      SingleQuote, <<"@PKG/macro">>, SingleQuote)
              \o Comment("import", <<" ">>, <<"A">>, DoubleQuote, <<"@pkg/macro">>, DoubleQuote)
    /\ lastParse.imports = << [key |-> <<"A">>, value |-> <<"@pkg/macro">>],
                              [key |-> <<"B">>, value |-> <<"@PKG/macro">>] >>

----------------------------------------------------------------------------
(* index.ts *)

\* The string a matched module path is; in the modelled texts the text
\* between the quotes is one token
ModulePathOf(group2) == group2[1]

\* Line 66: [...new Set(imports.values())], the values in insertion order
\* without repetitions
RECURSIVE DistinctValues(_, _, _)
DistinctValues(imports, k, acc) ==
    IF k > Len(imports) THEN acc
    ELSE LET p == ModulePathOf(imports[k].value)
         IN  DistinctValues(imports, k + 1,
                            IF \E x \in DOMAIN acc : acc[x] = p THEN acc ELSE Append(acc, p))

\* Line 70: manifest?.decorators.map((d) => d.module) ?? []
DecoratorModules(manifest) ==
    IF manifest \in {Undefined, Null} THEN << >>
    ELSE [k \in DOMAIN manifest.decorators |-> manifest.decorators[k].module]

\* Mutant: a module name that is already in the result is not added again
Flatten_dedupe(acc, modules) ==
    acc \o SelectSeq(modules, LAMBDA n : ~\E x \in DOMAIN acc : acc[x] = n)

\* Line 68: flatMap appends the callback's array to the result
Flatten(acc, modules) == acc \o modules

\* Lines 68-71: flatMap over modulePaths from position k on. calls lists the
\* paths getExternalManifest was called with, loads those it used the loader for.
RECURSIVE FlatMapFrom(_, _, _, _, _, _)
RECURSIVE FlatMapStep(_, _, _, _, _, _)
FlatMapFrom(modulePaths, k, requireFn, defaultReq, got, acc) ==
    IF k > Len(modulePaths) \/ got.threw
    THEN [cache |-> got.cache, global |-> got.global, threw |-> got.threw,
          result |-> IF got.threw THEN Exception ELSE acc.result,
          calls |-> acc.calls, loads |-> acc.loads]
    ELSE FlatMapStep(modulePaths, k, requireFn, defaultReq,
                     getExternalManifest(got.cache, got.global, modulePaths[k],
                                         requireFn, defaultReq), acc)

\* Lines 69-70: the callback for modulePaths[k], got being what
\* getExternalManifest returned
FlatMapStep(modulePaths, k, requireFn, defaultReq, got, acc) ==
    FlatMapFrom(modulePaths, k + 1, requireFn, defaultReq, got,
                [result |-> IF got.threw THEN acc.result
                            ELSE Flatten(acc.result, DecoratorModules(got.result)),
                 calls |-> Append(acc.calls, modulePaths[k]),
                 loads |-> IF got.invoked THEN Append(acc.loads, modulePaths[k])
                           ELSE acc.loads])

\* Lines 61-72
collectExternalDecoratorModules(cache, global, text, requireFn, defaultReq) ==
    FlatMapFrom(DistinctValues(parseMacroImportComments(text), 1, << >>), 1,
                requireFn, defaultReq,
                [cache |-> cache, global |-> global, threw |-> FALSE],
                [result |-> << >>, calls |-> << >>, loads |-> << >>])

----------------------------------------------------------------------------
(* The composite helper as a state machine over the manifest cache *)

\* The comments the helper's texts are written with
CollectChunks ==
    { Comment("import", <<" ">>, <<"A">>, DoubleQuote, <<"@pkg/macro">>, DoubleQuote),
      Comment("import", <<" ">>, <<"B">>, SingleQuote, <<"@pkg/macro">>, SingleQuote),
      Comment("import", <<" ", " ">>, <<" ", "A", ",", " ", "B", " ">>,
              SingleQuote, <<"@PKG/macro">>, SingleQuote) }

\* The texts the helper is called with: no comment, one, or two
CollectTexts == {a \o b : a \in CollectChunks \cup {<< >>}, b \in CollectChunks \cup {<< >>}}

\* The loaders the helper is called with: plain loaders whose accessor gives
\* each manifest or undefined, a loader that throws, and the default loader
CollectLoaderArgs ==
    {a \in LookupLoaderArgs : a[1] = Undefined \/ a[1].load = "throws"
                                 \/ a[1].pkg.manifest # Null}

CollectRecord(text, a, got) ==
    /\ externalManifestCache' = got.cache
    /\ globalRequire' = got.global
    /\ callCount' = [p \in ModulePaths |->
                        callCount[p] + Cardinality({x \in DOMAIN got.loads : got.loads[x] = p})]
    /\ requested' = requested \cup {got.calls[x] : x \in DOMAIN got.calls}
    /\ lastCollect' = [code |-> text, req |-> NullishCoalesce(a[1], a[2]),
                       result |-> got.result, threw |-> got.threw,
                       calls |-> got.calls, loads |-> got.loads,
                       hits |-> DOMAIN externalManifestCache]
    /\ UNCHANGED <<cleared, lastCall, code, lastParse>>
    /\ UNCHANGED configVars

CollectExternalDecoratorModulesCall ==
    \E text \in CollectTexts, a \in CollectLoaderArgs :
        CollectRecord(text, a,
                      collectExternalDecoratorModules(externalManifestCache, globalRequire,
                                                      text, a[1], a[2]))

NextCollect ==
    \/ CollectExternalDecoratorModulesCall
    \/ clearExternalManifestCache

InitCollect ==
    /\ externalManifestCache = EmptyMap
    /\ globalRequire = Absent
    /\ callCount = [p \in ModulePaths |-> 0]
    /\ cleared = FALSE
    /\ requested = {}
    /\ lastCall = NoCall
    /\ files = {}
    /\ dirs = {}
    /\ startDir = Undefined
    /\ lastConfig = Undefined
    /\ code = << >>
    /\ lastParse = Undefined
    /\ lastCollect = Undefined

SpecCollect == InitCollect /\ [][NextCollect]_vars

----------------------------------------------------------------------------
(* Properties of the composite helper *)

\* The module paths that are values of the table parsed from text
TablePaths(text) ==
    LET imports == parseMacroImportComments(text)
    IN  {ModulePathOf(imports[x].value) : x \in DOMAIN imports}

\* The module fields of the decorators of the manifests cached for paths,
\* path by path
RECURSIVE ModulesAlong(_, _)
ModulesAlong(paths, cache) ==
    IF paths = << >> THEN << >>
    ELSE LET m == MapGet(cache, Head(paths))
         IN  (IF m \in {Undefined, Null} THEN << >>
              ELSE [k \in DOMAIN m.decorators |-> m.decorators[k].module])
             \o ModulesAlong(Tail(paths), cache)

\* C14: the helper never throws; it calls getExternalManifest once for each
\* distinct module path among the values of the parsed table and for no other
\* path, and returns, path by path, the module fields of the decorators of
\* that path's manifest in manifest order, nothing for a path without a
\* manifest, with no name removed.
C14_ModulesPerPath ==
    lastCollect # Undefined =>
        /\ ~lastCollect.threw
        /\ {lastCollect.calls[x] : x \in DOMAIN lastCollect.calls} = TablePaths(lastCollect.code)
        /\ Len(lastCollect.calls) = Cardinality(TablePaths(lastCollect.code))
        /\ \A x \in DOMAIN lastCollect.calls :
              /\ MapHas(externalManifestCache, lastCollect.calls[x])
              /\ lastCollect.calls[x] \notin lastCollect.hits =>
                    MapGet(externalManifestCache, lastCollect.calls[x])
                        = FreshResult(lastCollect.req)
        /\ lastCollect.result = ModulesAlong(lastCollect.calls, externalManifestCache)

C14_Witness ==
    /\ lastCollect # Undefined
    /\ lastCollect.calls = <<"@PKG/macro", "@pkg/macro">>
    /\ externalManifestCache["@PKG/macro"] = ManifestA
    /\ externalManifestCache["@pkg/macro"] = ManifestB
    /\ lastCollect.result = <<"ctrl", "field", "ctrl">>

----------------------------------------------------------------------------
(* Repeated calls on the manifest cache *)

\* C15: a getExternalManifest call that follows the first call for the same
\* path, with no clear in between, returns the value the first call returned:
\* the accessor's return value when the first load found the accessor
\* (undefined and null included), null when the first load failed.
C15_RepeatReturnsFirst ==
    [][(/\ lastCall.op = "getExternalManifest"
        /\ lastCall.invoked
        /\ lastCall'.op = "getExternalManifest"
        /\ lastCall'.modulePath = lastCall.modulePath) =>
            /\ ~lastCall'.invoked
            /\ lastCall.result = FreshResult(lastCall.req)
            /\ lastCall'.result = lastCall.result]_vars

----------------------------------------------------------------------------
(* Termination of the config walk *)

\* The directories the walk examined, in order
VisitedDirs == [k \in DOMAIN lastConfig.visited |-> ResolveDir(lastConfig.visited[k])]

\* How an iteration can end the loop
Stops == {"found", "boundary", "root"}

\* C16 as stated: the walk ends by a found path, a boundary or the root;
\* every other iteration moves one level up, so every examined directory is
\* an ancestor of the start directory and none is examined twice.
C16_EachAncestorOnce ==
    lastConfig # Undefined /\ lastConfig.op = "findConfigFile" =>
        /\ lastConfig.stop \in Stops
        /\ lastConfig.stop = "root" => VisitedDirs[Len(VisitedDirs)] = << >>
        /\ \A k \in 1..(Len(VisitedDirs) - 1) :
              /\ VisitedDirs[k] # << >>
              /\ VisitedDirs[k + 1] = Front(VisitedDirs[k])
        /\ \A k \in DOMAIN VisitedDirs : VisitedDirs[k] \in Ancestors
        /\ \A j \in DOMAIN VisitedDirs : \A k \in DOMAIN VisitedDirs :
              VisitedDirs[j] = VisitedDirs[k] => j = k

\* What the walk does guarantee: it ends after at most one iteration per
\* segment of startDir plus one; an iteration returns a found path, stops at a
\* boundary, stops because path.dirname leaves the path unchanged ("/" or
\* "."), or goes on with the path one segment shorter. When startDir has no
\* ".." segment each step is one directory up and no directory is examined
\* twice.
WalkShortens ==
    lastConfig # Undefined /\ lastConfig.op = "findConfigFile" =>
        /\ lastConfig.stop \in Stops
        /\ lastConfig.visited[1] = startDir
        /\ Len(lastConfig.visited) <= Len(startDir.segs) + 1
        /\ lastConfig.stop = "root" =>
              lastConfig.visited[Len(lastConfig.visited)].segs = << >>
        /\ \A k \in 1..(Len(lastConfig.visited) - 1) :
              /\ lastConfig.visited[k].segs # << >>
              /\ lastConfig.visited[k + 1].abs = lastConfig.visited[k].abs
              /\ lastConfig.visited[k + 1].segs = Front(lastConfig.visited[k].segs)
              /\ ~StopsAt(k - 1)
        /\ (\A x \in DOMAIN startDir.segs : startDir.segs[x] # "..") =>
              /\ \A k \in 1..(Len(VisitedDirs) - 1) :
                    VisitedDirs[k] # << >> /\ VisitedDirs[k + 1] = Front(VisitedDirs[k])
              /\ \A j \in DOMAIN VisitedDirs : \A k \in DOMAIN VisitedDirs :
                    VisitedDirs[j] = VisitedDirs[k] => j = k

====
